---- MODULE Spec2Model ----
(***************************************************************************)
(* Model of src/geminimodel.py: GeminiTestCaseGenerator.                   *)
(*                                                                         *)
(* A text is a sequence of one-character strings; indexes of the string    *)
(* operators (find, rfind, Slice) are Python's 0-based indexes, -1 is      *)
(* "not found".                                                            *)
(*                                                                         *)
(*   Spec     _post_process_test_cases applied to every text of Inputs,    *)
(*            then applied again to its own output.                        *)
(*   GenSpec  generate_test_cases: document fetch, Figma fetch, model      *)
(*            call, post-processing and return.                            *)
(***************************************************************************)
EXTENDS Integers, Sequences, FiniteSets

VARIABLES pc, raw_output, cleaned_output, again,
          prd_url, figma_url, prd_content, figma_data, prompt, test_cases,
          result

\* the parameter and the results of _post_process_test_cases
postVars == <<raw_output, cleaned_output, again>>
\* the parameters and locals of generate_test_cases
genVars == <<prd_url, figma_url, prd_content, figma_data, prompt, test_cases,
             result>>

vars == <<pc, postVars, genVars>>

\* Bounds of the model: the number of pieces an input text is built from.
MaxPieces == 4
MaxGenPieces == 1

None == "None"

Min(S) == CHOOSE x \in S : \A y \in S : x <= y
Max(S) == CHOOSE x \in S : \A y \in S : x >= y

-----------------------------------------------------------------------------
(* The literals of _post_process_test_cases.                               *)

FeatureMarker == <<"F","e","a","t","u","r","e",":">>
ScenarioMarker == <<"S","c","e","n","a","r","i","o",":">>
ScenarioOutlineMarker ==
    <<"S","c","e","n","a","r","i","o"," ","O","u","t","l","i","n","e",":">>

NoteMarker == <<"N","o","t","e",":">>
NotesMarker == <<"N","o","t","e","s",":">>
CommentMarker == <<"C","o","m","m","e","n","t",":">>
CommentsMarker == <<"C","o","m","m","e","n","t","s",":">>
ExplanationMarker == <<"E","x","p","l","a","n","a","t","i","o","n",":">>
HashMarker == <<"#">>

\* The marker list of the for loop, in list order.
EndMarkers ==
    <<NoteMarker, NotesMarker, CommentMarker, CommentsMarker,
      ExplanationMarker, HashMarker>>

\* The characters str.strip() removes (those an input of the model can hold).
Whitespace == {" ", "\t", "\n", "\r", "\f"}

-----------------------------------------------------------------------------
(* Python's str operations.                                                *)

\* s[a:b] for 0 <= a and 0 <= b (an index past the end is clamped).
Slice(s, a, b) ==
    LET hi == IF b > Len(s) THEN Len(s) ELSE b
    IN  IF a >= hi THEN << >> ELSE SubSeq(s, a + 1, hi)

\* whether sub occurs in s at 0-based index i
OccursAt(s, sub, i) ==
    /\ i >= 0
    /\ i + Len(sub) <= Len(s)
    /\ \A k \in 1..Len(sub) : s[i + k] = sub[k]

\* s.find(sub, start) for start >= 0: the lowest index at or after start
RECURSIVE find(_, _, _)
find(s, sub, start) ==
    IF start + Len(sub) > Len(s) THEN -1
    ELSE IF OccursAt(s, sub, start) THEN start
    ELSE find(s, sub, start + 1)

\* the highest index at or below i where sub occurs in s, or -1
RECURSIVE rfind_below(_, _, _)
rfind_below(s, sub, i) ==
    IF i < 0 THEN -1
    ELSE IF OccursAt(s, sub, i) THEN i
    ELSE rfind_below(s, sub, i - 1)

\* s.rfind(sub)
rfind(s, sub) == rfind_below(s, sub, Len(s) - Len(sub))

\* the number of characters of s[:e] left once trailing whitespace is dropped
RECURSIVE rstrip_end(_, _)
rstrip_end(s, e) ==
    IF e = 0 \/ s[e] \notin Whitespace THEN e ELSE rstrip_end(s, e - 1)

\* the number of whitespace characters s begins with, counted from index a
RECURSIVE lstrip_start(_, _)
lstrip_start(s, a) ==
    IF a >= Len(s) \/ s[a + 1] \notin Whitespace THEN a
    ELSE lstrip_start(s, a + 1)

\* A wrong strip: only the left side is stripped (str.lstrip).
strip_left_only(s) == Slice(s, lstrip_start(s, 0), Len(s))

\* A wrong strip: every whitespace character is removed, inner ones too.
strip_everywhere(s) == SelectSeq(s, LAMBDA c : c \notin Whitespace)

\* s.strip()
strip(s) == Slice(s, lstrip_start(s, 0), rstrip_end(s, Len(s)))

-----------------------------------------------------------------------------
(* _post_process_test_cases, statement by statement.                       *)

\* feature_index = cleaned_output.find("Feature:")
feature_index(cleaned) == find(cleaned, FeatureMarker, 0)

\* A wrong leading trim: the text before "Feature:" is kept.
leading_trim_keeps_all(cleaned) == cleaned

\* A wrong leading trim: "if feature_index:" instead of "if feature_index >= 0:",
\* so that -1 slices too, and cleaned_output[-1:] is the last character.
leading_trim_on_truthy(cleaned) ==
    LET fi == feature_index(cleaned)
    IN  IF fi > 0 THEN Slice(cleaned, fi, Len(cleaned))
        ELSE IF fi = -1 /\ Len(cleaned) > 0
             THEN Slice(cleaned, Len(cleaned) - 1, Len(cleaned))
        ELSE cleaned

\* if feature_index >= 0: cleaned_output = cleaned_output[feature_index:]
leading_trim(cleaned) ==
    LET fi == feature_index(cleaned)
    IN  IF fi >= 0 THEN Slice(cleaned, fi, Len(cleaned)) ELSE cleaned

\* A wrong last_scenario: 0 in place of -1 when no section marker is found.
last_scenario_floor_zero(cleaned) ==
    Max({rfind(cleaned, ScenarioMarker), rfind(cleaned, ScenarioOutlineMarker), 0})

\* last_scenario = max(rfind("Scenario:"), rfind("Scenario Outline:"))
last_scenario(cleaned) ==
    Max({rfind(cleaned, ScenarioMarker), rfind(cleaned, ScenarioOutlineMarker)})

\* A wrong search: the markers are searched from the start of the text.
potential_endings_from_start(cleaned, last) ==
    SelectSeq([i \in 1..Len(EndMarkers) |-> find(cleaned, EndMarkers[i], 0)],
              LAMBDA pos : pos >= 0)

\* the for loop: the positions found at or after last_scenario, in list order
potential_endings(cleaned, last) ==
    SelectSeq([i \in 1..Len(EndMarkers) |-> find(cleaned, EndMarkers[i], last)],
              LAMBDA pos : pos >= 0)

\* A wrong end_pos: the first marker of the list that was found wins.
end_pos_first_in_list(endings) == endings[1]

\* end_pos = min(potential_endings)
end_pos(endings) == Min({endings[i] : i \in 1..Len(endings)})

\* A wrong cut: the .strip() after the slice is missing.
cut_without_strip(cleaned, pos) == Slice(cleaned, 0, pos)

\* cleaned_output = cleaned_output[:end_pos].strip()
cut(cleaned, pos) == strip(Slice(cleaned, 0, pos))

\* A wrong trailing trim: the text is never cut.
trailing_trim_never(cleaned) == cleaned

\* if last_scenario >= 0: ... if potential_endings: ...
trailing_trim(cleaned) ==
    LET last == last_scenario(cleaned)
    IN  IF last >= 0
        THEN LET endings == potential_endings(cleaned, last)
             IN  IF Len(endings) > 0 THEN cut(cleaned, end_pos(endings))
                 ELSE cleaned
        ELSE cleaned

post_process_test_cases(raw) == trailing_trim(leading_trim(strip(raw)))

-----------------------------------------------------------------------------
(* The input texts: every concatenation of at most MaxPieces pieces.       *)

Pieces ==
    { <<" ">>, <<"x">>, FeatureMarker, ScenarioMarker,
      ScenarioOutlineMarker, NoteMarker, CommentsMarker, HashMarker }

RECURSIVE Concat(_)
Concat(ps) == IF ps = << >> THEN << >> ELSE Head(ps) \o Concat(Tail(ps))

TextsOf(n) == {Concat(ps) : ps \in UNION {[1..k -> Pieces] : k \in 0..n}}

Inputs == TextsOf(MaxPieces)
GenInputs == TextsOf(MaxGenPieces)

-----------------------------------------------------------------------------
(* Spec: the post-processing alone.                                        *)

Init ==
    /\ pc = "call"
    /\ raw_output \in Inputs
    /\ cleaned_output = << >>
    /\ again = << >>
    /\ prd_url = None
    /\ figma_url = None
    /\ prd_content = None
    /\ figma_data = None
    /\ prompt = None
    /\ test_cases = None
    /\ result = None

PostProcess ==
    /\ pc = "call"
    /\ cleaned_output' = post_process_test_cases(raw_output)
    /\ pc' = "done"
    /\ UNCHANGED <<raw_output, again, genVars>>

PostProcessAgain ==
    /\ pc = "done"
    /\ again' = post_process_test_cases(cleaned_output)
    /\ pc' = "again"
    /\ UNCHANGED <<raw_output, cleaned_output, genVars>>

Next == PostProcess \/ PostProcessAgain

Spec == Init /\ [][Next]_vars

-----------------------------------------------------------------------------
(* generate_test_cases and the steps it awaits.                            *)
(*                                                                         *)
(* A URL is the list of its "/"-separated segments and the value of its    *)
(* node-id query parameter (None when it has none). A step's outcome is    *)
(* the value it returns, or an exception that leaves it.                   *)

MODEL_ID == "gemini-2.0-flash"

Ok(v) == [exc |-> FALSE, value |-> v]
Raised == [exc |-> TRUE, value |-> None]

\* try: body / except Exception: return fallback
Catch(body, fallback) == IF body.exc THEN Ok(fallback) ELSE body

\* A document's content is a tuple of text fragments.
DocumentSentinel(url) ==
    <<"Could not fetch document from ", url,
      ". Please ensure the URL is accessible.">>
AtlassianSentinel ==
    <<"Could not fetch Atlassian document. Please ensure the URL is correct and accessible.">>
GoogleDocsText ==
    <<"Google Docs integration requires OAuth2 authorization. Please use Atlassian or direct text input.">>
FigmaSentinel == "Could not parse Figma URL. Please ensure it's correct."
MockDesignInfo == "UI Elements: ..."

\* "Error generating test cases. Please try again."
GeminiSentinel ==
    <<"E","r","r","o","r"," ","g","e","n","e","r","a","t","i","n","g"," ",
      "t","e","s","t"," ","c","a","s","e","s","."," ",
      "P","l","e","a","s","e"," ","t","r","y"," ","a","g","a","i","n",".">>

DocUrls ==
    { [segs |-> <<"https:", "", "carousell.atlassian.net", "wiki", "spaces",
                  "UAC", "pages", "2741403649", "PRD">>, node_id |-> None],
      [segs |-> <<"https:", "", "carousell.atlassian.net", "wiki">>,
       node_id |-> None],
      [segs |-> <<"https:", "", "docs.google.com", "document", "d", "1a2b">>,
       node_id |-> None],
      [segs |-> <<"https:", "", "example.com", "prd.txt">>, node_id |-> None] }

FigmaUrls ==
    { [segs |-> <<"https:", "", "www.figma.com", "design",
                  "QQb1FVxgvmUN79gjavh31u", "Offer-to-likers">>,
       node_id |-> "1-8"],
      [segs |-> <<"https:", "", "www.figma.com", "design",
                  "QQb1FVxgvmUN79gjavh31u", "Offer-to-likers">>,
       node_id |-> None],
      [segs |-> <<"figma.com">>, node_id |-> None] }

\* what requests.get(doc_url) and raise_for_status() can do
HttpOutcomes == {Raised, Ok(<<"PRD: offer to likers">>), Ok(<<"">>)}

\* what self.model.generate_content(prompt) and response.text can do
GeminiOutcomes == {Raised} \cup {Ok(text) : text \in GenInputs}

\* text in url, for the two host names the code looks for
UrlContains(url, text) == \E i \in 1..Len(url.segs) : url.segs[i] = text

\* atlassian_url.split("pages/")[1].split("/")[0]: an IndexError without "pages/"
atlassian_page_id(url) ==
    LET at == {i \in 1..(Len(url.segs) - 1) : url.segs[i] = "pages"}
    IN  IF at = {} THEN Raised ELSE Ok(<<url.segs[Min(at) + 1]>>)

fetch_atlassian_content(url) == Catch(atlassian_page_id(url), AtlassianSentinel)

fetch_google_docs_content(url) == Ok(GoogleDocsText)

fetch_document_content(url, http) ==
    IF UrlContains(url, "carousell.atlassian.net")
    THEN fetch_atlassian_content(url)
    ELSE IF UrlContains(url, "docs.google.com")
         THEN fetch_google_docs_content(url)
         ELSE Catch(http, DocumentSentinel(url))

\* figma_url.split("/")[4] and the node-id: an IndexError on a short URL
figma_parse(url) ==
    IF Len(url.segs) < 5 THEN Raised
    ELSE Ok([file_key |-> url.segs[5], node_id |-> url.node_id,
             design_info |-> MockDesignInfo, screenshots |-> << >>])

fetch_figma_content(url) ==
    Catch(figma_parse(url),
          [file_key |-> None, node_id |-> None,
           design_info |-> FigmaSentinel, screenshots |-> << >>])

build_prompt(content, data) ==
    [prd_content |-> content, design_info |-> data.design_info]

\* A wrong model call: the exception of generate_content is not caught.
generate_uncaught(response) == response

\* try: response = generate_content(prompt); return response.text / except
generate_with_gemini(response) == Catch(response, GeminiSentinel)

GenInit ==
    /\ pc = "fetch_doc"
    /\ prd_url \in DocUrls
    /\ figma_url \in FigmaUrls
    /\ prd_content = None
    /\ figma_data = None
    /\ prompt = None
    /\ test_cases = None
    /\ result = None
    /\ raw_output = << >>
    /\ cleaned_output = << >>
    /\ again = << >>

\* prd_content = await self._fetch_document_content(prd_url)
FetchDocument ==
    /\ pc = "fetch_doc"
    /\ \E http \in HttpOutcomes :
          LET r == fetch_document_content(prd_url, http)
          IN  IF r.exc
              THEN pc' = "raised" /\ UNCHANGED prd_content
              ELSE pc' = "fetch_figma" /\ prd_content' = r.value
    /\ UNCHANGED <<postVars, prd_url, figma_url, figma_data, prompt,
                   test_cases, result>>

\* figma_data = await self._fetch_figma_content(figma_url)
FetchFigma ==
    /\ pc = "fetch_figma"
    /\ LET r == fetch_figma_content(figma_url)
       IN  IF r.exc
           THEN pc' = "raised" /\ UNCHANGED figma_data
           ELSE pc' = "generate" /\ figma_data' = r.value
    /\ UNCHANGED <<postVars, prd_url, figma_url, prd_content, prompt,
                   test_cases, result>>

\* test_cases = await self._generate_with_gemini(prd_content, figma_data)
GenerateWithGemini ==
    /\ pc = "generate"
    /\ prompt' = build_prompt(prd_content, figma_data)
    /\ \E response \in GeminiOutcomes :
          LET r == generate_with_gemini(response)
          IN  IF r.exc
              THEN pc' = "raised" /\ UNCHANGED test_cases
              ELSE pc' = "post" /\ test_cases' = r.value
    /\ UNCHANGED <<postVars, prd_url, figma_url, prd_content, figma_data,
                   result>>

\* formatted_cases = self._post_process_test_cases(test_cases); return {...}
PostProcessAndReturn ==
    /\ pc = "post"
    /\ raw_output' = test_cases
    /\ cleaned_output' = post_process_test_cases(test_cases)
    /\ result' = [status |-> "success",
                  test_cases |-> cleaned_output',
                  metadata |-> [prd_url |-> prd_url, figma_url |-> figma_url,
                                model_version |-> MODEL_ID]]
    /\ pc' = "returned"
    /\ UNCHANGED <<again, prd_url, figma_url, prd_content, figma_data, prompt,
                   test_cases>>

GenNext ==
    \/ FetchDocument
    \/ FetchFigma
    \/ GenerateWithGemini
    \/ PostProcessAndReturn

GenSpec == GenInit /\ [][GenNext]_vars

-----------------------------------------------------------------------------
(* Vocabulary of the properties. Positions are 0-based positions in the    *)
(* input text raw_output.                                                  *)

\* _post_process_test_cases has returned cleaned_output for raw_output
Returned == pc = "done"

AllMarkers ==
    {FeatureMarker, ScenarioMarker, ScenarioOutlineMarker} \cup
    {EndMarkers[i] : i \in 1..Len(EndMarkers)}

NoMarkerIn(x) == \A m \in AllMarkers : find(x, m, 0) = -1

\* r occurs in x as a contiguous piece lying within the positions lo..hi-1
ContainedIn(r, x, lo, hi) ==
    \E a \in lo..(hi - Len(r)) : OccursAt(x, r, a)

\* the number of whitespace characters x begins with
LeadingSpaces(x) ==
    Min({i \in 0..Len(x) : i = Len(x) \/ x[i + 1] \notin Whitespace})

\* the end of x[:m] once its trailing whitespace is removed
TrimmedEnd(x, m) == Max({e \in 0..m : e = 0 \/ x[e] \notin Whitespace})

FeaturePos(x) == find(x, FeatureMarker, 0)

\* where the text left after the leading trim begins
KeepFrom(x) == IF FeaturePos(x) >= 0 THEN FeaturePos(x) ELSE LeadingSpaces(x)

\* the last occurrence of "Scenario:" or "Scenario Outline:" in x, or -1
LastSectionIn(x) ==
    Max({rfind(x, ScenarioMarker), rfind(x, ScenarioOutlineMarker)})

\* the text left after the leading trim contains a section marker
SectionKept(x) == LastSectionIn(x) >= 0 /\ LastSectionIn(x) >= KeepFrom(x)

\* the positions at or after s where a trailing-annotation marker occurs first
EndingsFrom(x, s) ==
    {find(x, EndMarkers[i], s) : i \in 1..Len(EndMarkers)} \ {-1}

-----------------------------------------------------------------------------
\* C1: an input with none of the recognized markers is returned with its
\* leading and trailing whitespace stripped, and nothing else changed.
C1_NoMarkersStrip ==
    (Returned /\ NoMarkerIn(raw_output)) =>
        LET a == LeadingSpaces(raw_output)
            e == TrimmedEnd(raw_output, Len(raw_output))
        IN  cleaned_output = Slice(raw_output, a, e)

C1_Witness ==
    /\ pc = "done"
    /\ NoMarkerIn(raw_output)
    /\ Len(raw_output) >= 3
    /\ raw_output[1] \in Whitespace
    /\ raw_output[Len(raw_output)] \in Whitespace
    /\ cleaned_output # << >>

\* C2: when the input contains "Feature:", with p the position of the start
\* marker (its first occurrence), the output lies within the input from p on:
\* no character before p is returned.
C2_NothingBeforeFeature ==
    (Returned /\ FeaturePos(raw_output) >= 0) =>
        ContainedIn(cleaned_output, raw_output,
                    FeaturePos(raw_output), Len(raw_output))

C2_Witness ==
    /\ pc = "done"
    /\ FeaturePos(raw_output) > 0
    /\ raw_output[1] \notin Whitespace
    /\ cleaned_output # << >>

\* C3 as stated: with s the last section marker of the INPUT and m the least
\* position after s of a trailing-annotation marker, the output lies before m.
C3_Original ==
    LET s == LastSectionIn(raw_output)
        ends == EndingsFrom(raw_output, s + 1)
    IN  (Returned /\ s >= 0 /\ ends # {}) =>
            ContainedIn(cleaned_output, raw_output, 0, Min(ends))

\* C3 amended: the same, for the inputs whose last section marker is not
\* before the first "Feature:" (it is in the text left after the leading trim).
C3_CutBeforeMarker ==
    LET s == LastSectionIn(raw_output)
        ends == EndingsFrom(raw_output, s + 1)
    IN  (Returned /\ SectionKept(raw_output) /\ ends # {}) =>
            ContainedIn(cleaned_output, raw_output, 0, Min(ends))

C3_Witness ==
    LET s == LastSectionIn(raw_output)
        ends == EndingsFrom(raw_output, s + 1)
    IN  /\ pc = "done"
        /\ FeaturePos(raw_output) > 0
        /\ SectionKept(raw_output)
        /\ ends # {}
        /\ cleaned_output # << >>

\* C4: when several trailing-annotation markers occur after the last section
\* marker of the text left after the leading trim, the output is that text up
\* to the least of their positions, with trailing whitespace removed.
C4_EarliestMarkerWins ==
    LET s == LastSectionIn(raw_output)
        ends == EndingsFrom(raw_output, s)
    IN  (Returned /\ SectionKept(raw_output) /\ Cardinality(ends) >= 2) =>
            cleaned_output =
                Slice(raw_output, KeepFrom(raw_output),
                      TrimmedEnd(raw_output, Min(ends)))

\* the last marker of the list ("#") occurs before the first ("Note:")
C4_Witness ==
    LET s == LastSectionIn(raw_output)
    IN  /\ pc = "done"
        /\ SectionKept(raw_output)
        /\ find(raw_output, HashMarker, s) >= 0
        /\ find(raw_output, HashMarker, s) < find(raw_output, NoteMarker, s)

\* C5: when the text left after the leading trim contains no section marker,
\* the output is the stripped input from the first "Feature:" on (the whole
\* stripped input without "Feature:"), whatever trailing markers it holds.
C5_NoSectionNoCut ==
    (Returned /\ ~SectionKept(raw_output)) =>
        cleaned_output =
            Slice(raw_output, KeepFrom(raw_output),
                  TrimmedEnd(raw_output, Len(raw_output)))

C5_Witness ==
    /\ pc = "done"
    /\ ~SectionKept(raw_output)
    /\ EndingsFrom(raw_output, KeepFrom(raw_output)) # {}
    /\ Len(raw_output) > Max(EndingsFrom(raw_output, KeepFrom(raw_output))) + 1

\* C6: applying the post-processing to its own output changes nothing.
C6_Idempotent == (pc = "again") => again = cleaned_output

\* both trims acted on the first application
C6_Witness ==
    /\ pc = "again"
    /\ FeaturePos(raw_output) > 0
    /\ cleaned_output # << >>
    /\ Len(cleaned_output) + 1 < Len(raw_output) - FeaturePos(raw_output)

\* C7: on every input, the empty text and any order of the markers included,
\* the post-processing returns (PostProcess is taken from every initial
\* state) and what it returns is a contiguous piece of the input.
C7_TotalSubstring ==
    Returned => ContainedIn(cleaned_output, raw_output, 0, Len(raw_output))

\* a trailing marker, then a section marker, then "Feature:"
C7_Witness ==
    /\ pc = "done"
    /\ find(raw_output, HashMarker, 0) >= 0
    /\ find(raw_output, HashMarker, 0) < LastSectionIn(raw_output)
    /\ LastSectionIn(raw_output) < FeaturePos(raw_output)

\* C8: without "Feature:" in the input, the output begins at the first
\* non-whitespace character of the input, and is not empty when there is one.
C8_NoFeatureKeepsLeft ==
    (Returned /\ FeaturePos(raw_output) = -1) =>
        /\ OccursAt(raw_output, cleaned_output, LeadingSpaces(raw_output))
        /\ (LeadingSpaces(raw_output) < Len(raw_output)) => cleaned_output # << >>

\* leading whitespace, no "Feature:", and a trailing cut
C8_Witness ==
    /\ pc = "done"
    /\ FeaturePos(raw_output) = -1
    /\ LeadingSpaces(raw_output) > 0
    /\ SectionKept(raw_output)
    /\ EndingsFrom(raw_output, LastSectionIn(raw_output)) # {}
    /\ cleaned_output # << >>

\* C9: when the text left after the leading trim contains a section marker,
\* the output still holds the complete last section marker, at the offset it
\* has in that text, it is the last section marker of the output, and no
\* trailing-annotation marker occurs in the output at or after it.
C9_LastSectionSurvives ==
    LET s == LastSectionIn(raw_output)
        off == s - KeepFrom(raw_output)
    IN  (Returned /\ SectionKept(raw_output)) =>
            /\ \E m \in {ScenarioMarker, ScenarioOutlineMarker} :
                  OccursAt(raw_output, m, s) /\ OccursAt(cleaned_output, m, off)
            /\ LastSectionIn(cleaned_output) = off
            /\ EndingsFrom(cleaned_output, off) = {}

\* a trailing-annotation marker before the last section marker and one after
C9_Witness ==
    LET s == LastSectionIn(raw_output)
    IN  /\ pc = "done"
        /\ SectionKept(raw_output)
        /\ \E a \in KeepFrom(raw_output)..s : OccursAt(raw_output, HashMarker, a)
        /\ EndingsFrom(raw_output, s) # {}

\* C10: generate_test_cases fetches the document, then the Figma data, then
\* calls the model, then post-processes; no failure of the first three steps
\* leaves the call, each is replaced by its sentinel, which is what the next
\* step receives; the result has status "success" and its test_cases are the
\* post-processed model output, or the model-error sentinel itself.
C10_FailuresBecomeSentinels ==
    /\ pc # "raised"
    /\ (pc = "fetch_doc") =>
          prd_content = None /\ figma_data = None /\ test_cases = None
    /\ (pc = "fetch_figma") =>
          Len(prd_content) >= 1 /\ figma_data = None /\ test_cases = None
    /\ (pc = "generate") =>
          /\ Len(prd_content) >= 1
          /\ figma_data.design_info \in {MockDesignInfo, FigmaSentinel}
          /\ test_cases = None
    /\ (pc \in {"generate", "post", "returned"}) =>
          /\ (~UrlContains(prd_url, "pages") /\
              UrlContains(prd_url, "carousell.atlassian.net")) =>
                prd_content = AtlassianSentinel
          /\ (Len(figma_url.segs) < 5) => figma_data.design_info = FigmaSentinel
    /\ (pc \in {"post", "returned"}) =>
          /\ prompt = [prd_content |-> prd_content,
                       design_info |-> figma_data.design_info]
          /\ test_cases \in GenInputs \cup {GeminiSentinel}
    /\ (pc = "post") => result = None
    /\ (pc = "returned") =>
          /\ result.status = "success"
          /\ ContainedIn(result.test_cases, test_cases, 0, Len(test_cases))
          /\ result.test_cases = post_process_test_cases(test_cases)
          /\ (test_cases = GeminiSentinel) => result.test_cases = GeminiSentinel

\* all three steps failed, and the call returned
C10_Witness ==
    /\ pc = "returned"
    /\ prd_content = DocumentSentinel(prd_url)
    /\ figma_data.design_info = FigmaSentinel
    /\ test_cases = GeminiSentinel
    /\ result.status = "success"

====
